---- MODULE Spec2Model ----
(***************************************************************************)
(* Model of the CTF text indexer, Source/Readers/ReaderLib/Indexer.cpp:    *)
(* the buffered reader (RefillBuffer), the sequence scanner (Build,        *)
(* BuildFromLines, SkipLine, TryGetNumericSequenceId,                      *)
(* TryGetSymbolicSequenceId) and the chunk builder (Index::AddSequence).   *)
(*                                                                         *)
(* Bytes are their unsigned values 0..255.  Pointers into m_buffer are     *)
(* 0-based offsets from m_buffer.get(); the null pointer is NULL.          *)
(* One step of the model is one call of Build up to the first loop it      *)
(* enters, or one iteration of one of the scanning loops together with     *)
(* the code of Build that runs when the loop's function returns.           *)
(***************************************************************************)
EXTENDS Integers, Sequences, FiniteSets, TLC

VARIABLES
    args,       \* the arguments the Indexer was constructed with
    m_file,     \* FILE*: [content: the bytes of the file, pos: the read position]
    indexer,    \* the data members of Indexer except m_file and m_index
    m_index,    \* Indexer::m_index, the Index under construction
    corpus,     \* the CorpusDescriptor handed to Build
    pc,         \* where the caller / Build stands
    frame,      \* the locals of Build, BuildFromLines and the key parsers
    error,      \* the message of the RuntimeError that ended Build, or NoError
    calls,      \* the arguments of every Index::AddSequence call so far, in order
    builds,     \* how many times Build has been called on this Indexer
    first       \* outcome of the previous Indexer (two-indexer runs), or NoRun

vars == <<args, m_file, indexer, m_index, corpus, pc, frame, error, calls, builds, first>>

----------------------------------------------------------------------------
(* Bounds of the model *)

MaxLen == 3          \* enumerated file bodies have at most this many bytes

MaxBufferSize == 4   \* bufferSize ranges over 1..MaxBufferSize

MaxChunkSize == 3    \* chunkSize ranges over 0..MaxChunkSize

MaxBuilds == 2       \* Build is called at most this often on one Indexer

----------------------------------------------------------------------------
(* Bytes and files *)

ROW_DELIMITER == 10

NULL == -1

STREAM_PREFIX == 124

BOM == <<239, 187, 191>>

Alphabet == {48, 49, 124, ROW_DELIMITER}

Bodies == UNION {[1..n -> Alphabet] : n \in 0..MaxLen}

\* "abc\nde\n"
LinesExample == <<97, 98, 99, 10, 100, 101, 10>>

\* "0|data1\n0|data2\n1|data3\n"
KeyedExample ==
    <<48, 124, 100, 97, 116, 97, 49, 10,
      48, 124, 100, 97, 116, 97, 50, 10,
      49, 124, 100, 97, 116, 97, 51, 10>>

\* "0|\n1|\n0|\n10|x": a key that comes back, a two-digit key, no final newline
MixedExample == <<48, 124, 10, 49, 124, 10, 48, 124, 10, 49, 48, 124, 120>>

\* "|\n\n\n\n": four short lines, the first byte the stream prefix
ShortLinesExample == <<124, 10, 10, 10, 10>>

Examples == {LinesExample, KeyedExample, MixedExample, ShortLinesExample}

Files == {p \o b : p \in {<<>>, BOM}, b \in Bodies \cup Examples}

BufferSizes == 1..MaxBufferSize

ChunkSizes == 0..MaxChunkSize

HasBOM(f) == Len(f) >= 3 /\ SubSeq(f, 1, 3) = BOM

Min(a, b) == IF a < b THEN a ELSE b

----------------------------------------------------------------------------
(* <ctype.h>.  A plain char above 127 is negative where char is signed, and
   isdigit/isspace of a negative value other than EOF is undefined: either
   answer is possible. *)

\* faulty variant: '0' is not taken for a digit
isdigit_NoZero(c) == IF c > 127 THEN BOOLEAN ELSE {c \in 49..57}

isdigit(c) == IF c > 127 THEN BOOLEAN ELSE {c \in 48..57}

isspace(c) == IF c > 127 THEN BOOLEAN ELSE {c \in (9..13) \cup {32}}

----------------------------------------------------------------------------
(* Index *)

EmptyChunk ==
    [m_id |-> 0, m_offset |-> 0, m_byteSize |-> 0, m_numberOfSequences |-> 0,
     m_numberOfSamples |-> 0, m_sequences |-> <<>>,
     m_sequenceOffsetInChunkInSamples |-> <<>>]

Index(chunkSize, primary) ==
    [m_chunks |-> <<>>, m_maxChunkSize |-> chunkSize, m_primary |-> primary,
     m_trackFirstSamples |-> FALSE, m_keyToSequenceInChunk |-> <<>>]

IsEmpty(idx) == idx.m_chunks = <<>>

Reserve(idx, sizeInBytes) == [idx EXCEPT !.m_chunks = Append(@, EmptyChunk)]

SequenceDescriptor(key, numberOfSamples) ==
    [m_key |-> key, m_numberOfSamples |-> numberOfSamples,
     m_byteSize |-> 0, m_offsetInChunk |-> 0]

\* faulty variant: an existing key is given the new value
MapInsert_Overwrite(map, key, value) == (key :> value) @@ map

\* std::map::insert: an existing key keeps its value
MapInsert(map, key, value) ==
    IF key \in DOMAIN map THEN map ELSE (key :> value) @@ map

\* faulty variant: the size of the new sequence is left out of the test
ExceedsChunk_IgnoresNew(chunk, byteSize, maxChunkSize) ==
    chunk.m_byteSize > 0 /\ chunk.m_byteSize > maxChunkSize

\* faulty variant: a sequence that fills the chunk exactly is sent to a new chunk
ExceedsChunk_WhenFull(chunk, byteSize, maxChunkSize) ==
    chunk.m_byteSize > 0 /\ (chunk.m_byteSize + byteSize) >= maxChunkSize

\* line 246: does the sequence go to a new chunk?
ExceedsChunk(chunk, byteSize, maxChunkSize) ==
    chunk.m_byteSize > 0 /\ (chunk.m_byteSize + byteSize) > maxChunkSize

\* lines 252-255: the chunk pushed when the current one is full
NewChunk(chunks, startOffsetInFile) ==
    [EmptyChunk EXCEPT !.m_id = Len(chunks), !.m_offset = startOffsetInFile]

\* lines 263-279: the chunk with the sequence added
ChunkWith(idx, chunk, sd, startOffsetInFile) ==
    [chunk EXCEPT
        !.m_sequenceOffsetInChunkInSamples =
            IF idx.m_trackFirstSamples THEN Append(@, chunk.m_numberOfSamples) ELSE @,
        !.m_byteSize = @ + sd.m_byteSize,
        !.m_numberOfSequences = @ + 1,
        !.m_numberOfSamples = @ + sd.m_numberOfSamples,
        !.m_sequences =
            Append(@, [sd EXCEPT !.m_offsetInChunk = startOffsetInFile - chunk.m_offset])]

AddSequence(idx, sd0, startOffsetInFile, endOffsetInFile) ==
    LET sd == [sd0 EXCEPT !.m_byteSize = endOffsetInFile - startOffsetInFile]
        last == idx.m_chunks[Len(idx.m_chunks)]
        chunks == IF ExceedsChunk(last, sd.m_byteSize, idx.m_maxChunkSize)
                  THEN Append(idx.m_chunks, NewChunk(idx.m_chunks, startOffsetInFile))
                  ELSE idx.m_chunks
        chunk == chunks[Len(chunks)]
        location == <<chunk.m_id, Len(chunk.m_sequences)>>
    IN [idx EXCEPT
           !.m_chunks = [chunks EXCEPT ![Len(chunks)] =
                            ChunkWith(idx, chunk, sd, startOffsetInFile)],
           !.m_keyToSequenceInChunk =
               IF ~idx.m_primary THEN MapInsert(@, sd.m_key, location) ELSE @]

\* what the calls log keeps of one AddSequence call
Call(sd, startOffsetInFile, endOffsetInFile) ==
    [key |-> sd.m_key, numberOfSamples |-> sd.m_numberOfSamples,
     start |-> startOffsetInFile, end |-> endOffsetInFile]

----------------------------------------------------------------------------
(* CorpusDescriptor: the key registry hands out ids in order of first use *)

CorpusDescriptor(numeric) == [numeric |-> numeric, keys |-> <<>>]

IsNumericSequenceKeys(crp) == crp.numeric

KeyIndex(keys, key) == CHOOSE i \in 1..Len(keys) : keys[i] = key

\* [id, corpus]: the id of the key and the registry afterwards
KeyToId(crp, key) ==
    IF \E i \in 1..Len(crp.keys) : crp.keys[i] = key
    THEN [id |-> KeyIndex(crp.keys, key) - 1, corpus |-> crp]
    ELSE [id |-> Len(crp.keys), corpus |-> [crp EXCEPT !.keys = Append(@, key)]]

----------------------------------------------------------------------------
(* Indexer: construction and the buffered reader *)

Indexer(skipSequenceIds, streamPrefix, bufferSize) ==
    [m_streamPrefix |-> streamPrefix, m_bufferSize |-> bufferSize,
     m_fileOffsetStart |-> 0, m_fileOffsetEnd |-> 0,
     m_buffer |-> <<>>, m_bufferStart |-> NULL, m_bufferEnd |-> NULL,
     m_pos |-> NULL, m_done |-> FALSE, m_hasSequenceIds |-> ~skipSequenceIds]

filesize(f) == Len(f.content)

\* fread(m_buffer.get(), 1, m_bufferSize, m_file)
fread(f, size) == Min(size, Len(f.content) - f.pos)

\* faulty variant: a read of zero bytes does not set m_done
RefillBuffer_NeverDone(ix, f) ==
    IF ix.m_done \/ fread(f, ix.m_bufferSize) = 0 THEN [ix |-> ix, file |-> f]
    ELSE LET bytesRead == fread(f, ix.m_bufferSize) IN
         [ix |-> [ix EXCEPT
                     !.m_buffer = SubSeq(f.content, f.pos + 1, f.pos + bytesRead),
                     !.m_fileOffsetStart = ix.m_fileOffsetEnd,
                     !.m_fileOffsetEnd = ix.m_fileOffsetEnd + bytesRead,
                     !.m_bufferStart = 0,
                     !.m_pos = 0,
                     !.m_bufferEnd = bytesRead],
          file |-> [f EXCEPT !.pos = @ + bytesRead]]

\* faulty variant: the cursor is not set back to the start of the new block
RefillBuffer_KeepsPos(ix, f) ==
    IF ix.m_done THEN [ix |-> ix, file |-> f]
    ELSE LET bytesRead == fread(f, ix.m_bufferSize) IN
         IF bytesRead = 0
         THEN [ix |-> [ix EXCEPT !.m_done = TRUE], file |-> f]
         ELSE [ix |-> [ix EXCEPT
                         !.m_buffer = SubSeq(f.content, f.pos + 1, f.pos + bytesRead),
                         !.m_fileOffsetStart = ix.m_fileOffsetEnd,
                         !.m_fileOffsetEnd = ix.m_fileOffsetEnd + bytesRead,
                         !.m_bufferStart = 0,
                         !.m_bufferEnd = bytesRead],
               file |-> [f EXCEPT !.pos = @ + bytesRead]]

\* faulty variant: the offset of the block in the file is not moved on
RefillBuffer_KeepsStart(ix, f) ==
    IF ix.m_done THEN [ix |-> ix, file |-> f]
    ELSE LET bytesRead == fread(f, ix.m_bufferSize) IN
         IF bytesRead = 0
         THEN [ix |-> [ix EXCEPT !.m_done = TRUE], file |-> f]
         ELSE [ix |-> [ix EXCEPT
                         !.m_buffer = SubSeq(f.content, f.pos + 1, f.pos + bytesRead),
                         !.m_fileOffsetEnd = ix.m_fileOffsetEnd + bytesRead,
                         !.m_bufferStart = 0,
                         !.m_pos = 0,
                         !.m_bufferEnd = bytesRead],
               file |-> [f EXCEPT !.pos = @ + bytesRead]]

\* [ix, file]: the Indexer and the FILE after RefillBuffer()
RefillBuffer(ix, f) ==
    IF ix.m_done THEN [ix |-> ix, file |-> f]
    ELSE LET bytesRead == fread(f, ix.m_bufferSize) IN
         IF bytesRead = 0
         THEN [ix |-> [ix EXCEPT !.m_done = TRUE], file |-> f]
         ELSE [ix |-> [ix EXCEPT
                         !.m_buffer = SubSeq(f.content, f.pos + 1, f.pos + bytesRead),
                         !.m_fileOffsetStart = ix.m_fileOffsetEnd,
                         !.m_fileOffsetEnd = ix.m_fileOffsetEnd + bytesRead,
                         !.m_bufferStart = 0,
                         !.m_pos = 0,
                         !.m_bufferEnd = bytesRead],
               file |-> [f EXCEPT !.pos = @ + bytesRead]]

\* the byte at pointer p of the buffer
At(ix, p) == ix.m_buffer[p + 1]

\* p points at a byte of the current block: *p is defined
Readable(ix, p) ==
    /\ p # NULL
    /\ ix.m_bufferStart # NULL
    /\ ix.m_bufferStart <= p
    /\ p < ix.m_bufferEnd

\* memchr(m_pos, c, m_bufferEnd - m_pos) is defined: a range of the block
Searchable(ix) ==
    /\ ix.m_pos # NULL
    /\ ix.m_bufferStart # NULL
    /\ ix.m_bufferStart <= ix.m_pos
    /\ ix.m_pos <= ix.m_bufferEnd

\* m_pos - m_bufferStart with m_pos null is undefined: any value may result
GarbageOffsets == {-1, 0}

\* the set of values GetFileOffset() may return
GetFileOffset(ix) ==
    IF ix.m_pos = NULL THEN GarbageOffsets
    ELSE {ix.m_fileOffsetStart + (ix.m_pos - ix.m_bufferStart)}

\* memchr(m_pos, ROW_DELIMITER, m_bufferEnd - m_pos)
memchr(ix) ==
    LET hits == {p \in ix.m_pos..(ix.m_bufferEnd - 1) : At(ix, p) = ROW_DELIMITER}
    IN IF hits = {} THEN NULL ELSE CHOOSE p \in hits : \A q \in hits : p <= q

\* line 108: the first block is empty
InputIsEmpty(ix) == ix.m_done

\* faulty variant: the key map, which a primary index leaves empty, decides
AlreadyBuilt_ByKeyMap(idx) == DOMAIN idx.m_keyToSequenceInChunk # {}

\* line 92: Build has nothing to do
AlreadyBuilt(idx) == ~IsEmpty(idx)

\* lines 113-114
BlockHoldsBOM(ix) == ix.m_bufferEnd - ix.m_bufferStart > 3

HasLeadingBOM(ix) ==
    /\ BlockHoldsBOM(ix)
    /\ At(ix, ix.m_bufferStart) = 239
    /\ At(ix, ix.m_bufferStart + 1) = 187
    /\ At(ix, ix.m_bufferStart + 2) = 191

\* faulty variant: the BOM is stepped over but m_fileOffsetStart is not advanced
SkipBOM_KeepsOffset(ix) ==
    IF HasLeadingBOM(ix)
    THEN [ix EXCEPT !.m_pos = @ + 3, !.m_bufferStart = @ + 3]
    ELSE ix

SkipBOM(ix) ==
    IF HasLeadingBOM(ix)
    THEN [ix EXCEPT !.m_pos = @ + 3, !.m_fileOffsetStart = @ + 3, !.m_bufferStart = @ + 3]
    ELSE ix

\* faulty variant: the first byte is not compared with the stream prefix
IsLineDelimited_SkipOnly(ix) == ~ix.m_hasSequenceIds

\* line 123
IsLineDelimited(ix) ==
    ~ix.m_hasSequenceIds \/ At(ix, ix.m_bufferStart) = ix.m_streamPrefix

\* faulty variant: the test of the corpus is inverted
RejectsLineDelimited_Numeric(crp) == IsNumericSequenceKeys(crp)

\* line 128: the corpus cannot take line numbers as keys
RejectsLineDelimited(crp) == ~IsNumericSequenceKeys(crp)

\* line 123 reads m_bufferStart[0] unless m_hasSequenceIds is false
ReadsFirstByte(ix) == ix.m_hasSequenceIds

----------------------------------------------------------------------------
(* Control state *)

NoError == "none"

EmptyInputError == "Input file is empty"

NonNumericKeysError ==
    "Corpus expects non-numeric sequence keys but the CTF input file does not have them."

NoSequenceIdError == "Expected a sequence id, none was found."

NoFrame ==
    [id |-> 0, offset |-> 0, sequenceOffset |-> 0, previousId |-> 0,
     numberOfSamples |-> 0, lines |-> 0, found |-> FALSE, key |-> <<>>]

NoRun == [ran |-> FALSE]

Init ==
    \E f \in Files, bufferSize \in BufferSizes, chunkSize \in ChunkSizes,
       primary \in BOOLEAN, skipSequenceIds \in BOOLEAN, numeric \in BOOLEAN :
        /\ args = [skipSequenceIds |-> skipSequenceIds, streamPrefix |-> STREAM_PREFIX,
                    chunkSize |-> chunkSize, bufferSize |-> bufferSize,
                    primary |-> primary]
        /\ m_file = [content |-> f, pos |-> 0]
        /\ indexer = Indexer(skipSequenceIds, STREAM_PREFIX, bufferSize)
        /\ m_index = Index(chunkSize, primary)
        /\ corpus = CorpusDescriptor(numeric)
        /\ pc = "Build"
        /\ frame = NoFrame
        /\ error = NoError
        /\ calls = <<>>
        /\ builds = 0
        /\ first = NoRun

\* RuntimeError(msg): Build is left by the exception
RuntimeError(msg, ix, f, idx, crp) ==
    /\ pc' = "Error"
    /\ error' = msg
    /\ indexer' = ix
    /\ m_file' = f
    /\ m_index' = idx
    /\ corpus' = crp
    /\ frame' = NoFrame
    /\ UNCHANGED calls

\* a read through a pointer that is null or outside the block: undefined
\* behaviour, after which nothing is known of the program
Undefined ==
    /\ pc' = "Undefined"
    /\ UNCHANGED <<m_file, indexer, m_index, corpus, frame, error, calls>>

\* Build returns
Return(ix, f, idx, crp, cl) ==
    /\ pc' = "Returned"
    /\ indexer' = ix
    /\ m_file' = f
    /\ m_index' = idx
    /\ corpus' = crp
    /\ calls' = cl
    /\ frame' = NoFrame
    /\ UNCHANGED error

\* lines 146-148 and 164: the head of the keyed loop, entered with locals fr
KeyedLoop(ix, f, idx, crp, cl, fr) ==
    IF ix.m_done
    THEN LET sd == SequenceDescriptor(fr.previousId, fr.numberOfSamples) IN
         Return(ix, f,
                AddSequence(idx, sd, fr.sequenceOffset, ix.m_fileOffsetEnd),
                crp,
                Append(cl, Call(sd, fr.sequenceOffset, ix.m_fileOffsetEnd)))
    ELSE /\ pc' = "SkipLine"
         /\ indexer' = ix
         /\ m_file' = f
         /\ m_index' = idx
         /\ corpus' = crp
         /\ calls' = cl
         /\ frame' = fr
         /\ UNCHANGED error

\* faulty variant: every line on which an id is found starts a new sequence
StartsNewSequence_AnyId(found, id, previousId) == found

\* line 152: tryGetSequenceId(id) && id != previousId
StartsNewSequence(found, id, previousId) == found /\ id # previousId

\* faulty variant: the digits are added up instead of read in base 10
AppendDigit_Sum(id, c) == id + (c - 48)

\* line 198: id = id * 10 + (c - '0')
AppendDigit(id, c) == id * 10 + (c - 48)

\* lines 138-145 (the first id) and 152-161 (a later id): tryGetSequenceId
\* has returned `found` with id in fr.id
AfterTryGet(ix, f, crp, found, fr) ==
    IF pc = "TryGetFirst"
    THEN IF ~found
         THEN RuntimeError(NoSequenceIdError, ix, f, m_index, crp)
         ELSE KeyedLoop(ix, f, m_index, crp, calls,
                        [fr EXCEPT !.sequenceOffset = fr.offset,
                                   !.previousId = fr.id,
                                   !.numberOfSamples = 0])
    ELSE IF StartsNewSequence(found, fr.id, fr.previousId)
         THEN LET sd == SequenceDescriptor(fr.previousId, fr.numberOfSamples) IN
              KeyedLoop(ix, f,
                        AddSequence(m_index, sd, fr.sequenceOffset, fr.offset),
                        crp,
                        Append(calls, Call(sd, fr.sequenceOffset, fr.offset)),
                        [fr EXCEPT !.sequenceOffset = fr.offset,
                                   !.previousId = fr.id,
                                   !.numberOfSamples = 0])
         ELSE KeyedLoop(ix, f, m_index, crp, calls, fr)

\* lines 149-152: SkipLine has returned
AfterSkipLine(ix, f) ==
    \E offset \in GetFileOffset(ix) :
        LET fr == [frame EXCEPT !.offset = offset,
                                !.numberOfSamples = @ + 1,
                                !.id = IF ix.m_done THEN @ ELSE 0,
                                !.found = FALSE,
                                !.key = <<>>]
        IN IF ~ix.m_done
           THEN /\ pc' = "TryGetNext"
                /\ indexer' = ix
                /\ m_file' = f
                /\ frame' = fr
                /\ UNCHANGED <<m_index, corpus, calls, error>>
           ELSE KeyedLoop(ix, f, m_index, corpus, calls, fr)

----------------------------------------------------------------------------
(* Actions *)

\* Indexer::Build, lines 90-141, up to the loop it enters
Build ==
    /\ pc \in {"Build", "Returned"}
    /\ builds < MaxBuilds
    /\ builds' = builds + 1
    /\ UNCHANGED <<args, first>>
    /\ IF AlreadyBuilt(m_index)
       THEN /\ pc' = "Returned"
            /\ UNCHANGED <<m_file, indexer, m_index, corpus, frame, error, calls>>
       ELSE LET idx == Reserve(m_index, filesize(m_file))
                r == RefillBuffer(indexer, m_file)
                ix == SkipBOM(r.ix)
            IN IF InputIsEmpty(r.ix)
               THEN RuntimeError(EmptyInputError, r.ix, r.file, idx, corpus)
               ELSE IF ReadsFirstByte(ix) /\ ~Readable(ix, ix.m_bufferStart)
               THEN Undefined
               ELSE IF IsLineDelimited(ix)
               THEN IF RejectsLineDelimited(corpus)
                    THEN RuntimeError(NonNumericKeysError, ix, r.file, idx, corpus)
                    ELSE \E offset \in GetFileOffset(ix) :
                            /\ pc' = "BuildFromLines"
                            /\ indexer' = [ix EXCEPT !.m_hasSequenceIds = FALSE]
                            /\ m_file' = r.file
                            /\ m_index' = idx
                            /\ frame' = [NoFrame EXCEPT !.offset = offset]
                            /\ UNCHANGED <<corpus, error, calls>>
               ELSE \E offset \in GetFileOffset(ix) :
                        /\ pc' = "TryGetFirst"
                        /\ indexer' = ix
                        /\ m_file' = r.file
                        /\ m_index' = idx
                        /\ frame' = [NoFrame EXCEPT !.offset = offset]
                        /\ UNCHANGED <<corpus, error, calls>>

\* Indexer::BuildFromLines, lines 65-80: one iteration of the loop
BuildFromLinesLoop ==
    /\ pc = "BuildFromLines"
    /\ ~indexer.m_done
    /\ UNCHANGED <<args, builds, first>>
    /\ IF ~Searchable(indexer) THEN Undefined ELSE
       LET p == memchr(indexer) IN
       IF p # NULL
       THEN \E here \in GetFileOffset([indexer EXCEPT !.m_pos = p]) :
               LET sequenceOffset == frame.offset
                   offset == here + 1
                   sd == SequenceDescriptor(frame.lines, 1)
               IN /\ m_index' = AddSequence(m_index, sd, sequenceOffset, offset)
                  /\ calls' = Append(calls, Call(sd, sequenceOffset, offset))
                  /\ indexer' = [indexer EXCEPT !.m_pos = p + 1]
                  /\ frame' = [frame EXCEPT !.offset = offset, !.lines = @ + 1]
                  /\ UNCHANGED <<m_file, corpus, error, pc>>
       ELSE LET r == RefillBuffer([indexer EXCEPT !.m_pos = NULL], m_file) IN
            /\ indexer' = r.ix
            /\ m_file' = r.file
            /\ UNCHANGED <<m_index, calls, frame, corpus, error, pc>>

\* faulty variant: the bytes after the last delimiter are dropped
HasTrailingLine_Never(offset, ix) == FALSE

\* faulty variant: a file that ends with the delimiter gets one more, empty sequence
HasTrailingLine_OrEmpty(offset, ix) == offset <= ix.m_fileOffsetEnd

\* line 82: bytes are left after the last delimiter
HasTrailingLine(offset, ix) == offset < ix.m_fileOffsetEnd

\* Indexer::BuildFromLines, lines 82-88: after the loop
BuildFromLinesEnd ==
    /\ pc = "BuildFromLines"
    /\ indexer.m_done
    /\ UNCHANGED <<args, builds, first>>
    /\ IF HasTrailingLine(frame.offset, indexer)
       THEN LET sd == SequenceDescriptor(frame.lines, 1) IN
            Return(indexer, m_file,
                   AddSequence(m_index, sd, frame.offset, indexer.m_fileOffsetEnd),
                   corpus,
                   Append(calls, Call(sd, frame.offset, indexer.m_fileOffsetEnd)))
       ELSE Return(indexer, m_file, m_index, corpus, calls)

\* Indexer::SkipLine, lines 169-182: one iteration of the loop, and lines
\* 149-152 of Build when SkipLine returns
SkipLine ==
    /\ pc = "SkipLine"
    /\ ~indexer.m_done
    /\ UNCHANGED <<args, builds, first>>
    /\ IF ~Searchable(indexer) THEN Undefined ELSE
       LET p == memchr(indexer) IN
       IF p # NULL
       THEN LET ix == [indexer EXCEPT !.m_pos = p + 1]
                r == IF ix.m_pos = ix.m_bufferEnd
                     THEN RefillBuffer(ix, m_file)
                     ELSE [ix |-> ix, file |-> m_file]
            IN AfterSkipLine(r.ix, r.file)
       ELSE LET r == RefillBuffer([indexer EXCEPT !.m_pos = NULL], m_file) IN
            IF r.ix.m_done
            THEN AfterSkipLine(r.ix, r.file)
            ELSE /\ indexer' = r.ix
                 /\ m_file' = r.file
                 /\ UNCHANGED <<m_index, corpus, calls, frame, error, pc>>

\* Indexer::TryGetNumericSequenceId, lines 189-204: one iteration of the
\* loop, and lines 138-145 or 152-161 of Build when the parser returns
TryGetNumericSequenceId ==
    /\ pc \in {"TryGetFirst", "TryGetNext"}
    /\ IsNumericSequenceKeys(corpus)
    /\ ~indexer.m_done
    /\ UNCHANGED <<args, builds, first>>
    /\ IF ~Readable(indexer, indexer.m_pos) THEN Undefined ELSE
       LET c == At(indexer, indexer.m_pos) IN
       \E digit \in isdigit(c) :
          IF ~digit
          THEN AfterTryGet(indexer, m_file, corpus, frame.found, frame)
          ELSE LET fr == [frame EXCEPT !.id = AppendDigit(@, c), !.found = TRUE]
                   ix == [indexer EXCEPT !.m_pos = @ + 1]
                   r == IF ix.m_pos = ix.m_bufferEnd
                        THEN RefillBuffer(ix, m_file)
                        ELSE [ix |-> ix, file |-> m_file]
               IN IF r.ix.m_done
                  THEN AfterTryGet(r.ix, r.file, corpus, FALSE, fr)
                  ELSE /\ indexer' = r.ix
                       /\ m_file' = r.file
                       /\ frame' = fr
                       /\ UNCHANGED <<m_index, corpus, calls, error, pc>>

\* Indexer::TryGetSymbolicSequenceId, lines 217-233: one iteration of the
\* loop, and lines 138-145 or 152-161 of Build when the parser returns
TryGetSymbolicSequenceId ==
    /\ pc \in {"TryGetFirst", "TryGetNext"}
    /\ ~IsNumericSequenceKeys(corpus)
    /\ ~indexer.m_done
    /\ UNCHANGED <<args, builds, first>>
    /\ IF ~Readable(indexer, indexer.m_pos) THEN Undefined ELSE
       LET c == At(indexer, indexer.m_pos) IN
       \E space \in isspace(c) :
          IF space
          THEN IF frame.found
               THEN LET k == KeyToId(corpus, frame.key) IN
                    AfterTryGet(indexer, m_file, k.corpus, TRUE,
                                [frame EXCEPT !.id = k.id])
               ELSE AfterTryGet(indexer, m_file, corpus, FALSE, frame)
          ELSE LET fr == [frame EXCEPT !.key = Append(@, c), !.found = TRUE]
                   ix == [indexer EXCEPT !.m_pos = @ + 1]
                   r == IF ix.m_pos = ix.m_bufferEnd
                        THEN RefillBuffer(ix, m_file)
                        ELSE [ix |-> ix, file |-> m_file]
               IN IF r.ix.m_done
                  THEN AfterTryGet(r.ix, r.file, corpus, FALSE, fr)
                  ELSE /\ indexer' = r.ix
                       /\ m_file' = r.file
                       /\ frame' = fr
                       /\ UNCHANGED <<m_index, corpus, calls, error, pc>>

\* the file without its leading BOM
StripBOM(f) == IF HasBOM(f) THEN SubSeq(f, 4, Len(f)) ELSE f

\* Build is over, by return or by exception
Finished == pc \in {"Returned", "Error"}

\* A second Indexer, constructed with the same arguments once the first is
\* finished, over the same file without its BOM.  The first one's outcome is
\* kept in `first`.
IndexerWithoutBOM ==
    /\ Finished
    /\ ~first.ran
    /\ HasBOM(m_file.content)
    /\ first' = [ran |-> TRUE, content |-> m_file.content, pc |-> pc,
                 error |-> error, calls |-> calls, index |-> m_index]
    /\ m_file' = [content |-> StripBOM(m_file.content), pos |-> 0]
    /\ indexer' = Indexer(args.skipSequenceIds, args.streamPrefix, args.bufferSize)
    /\ m_index' = Index(args.chunkSize, args.primary)
    /\ corpus' = CorpusDescriptor(IsNumericSequenceKeys(corpus))
    /\ pc' = "Build"
    /\ frame' = NoFrame
    /\ error' = NoError
    /\ calls' = <<>>
    /\ builds' = 0
    /\ UNCHANGED args

\* A second Indexer, constructed once the first is finished over the same
\* file (one without BOM) with the same arguments but another bufferSize.
\* The first one's outcome is kept in `first`.
IndexerWithBufferSize ==
    /\ Finished
    /\ ~first.ran
    /\ ~HasBOM(m_file.content)
    /\ \E bufferSize \in BufferSizes \ {args.bufferSize} :
          /\ args' = [args EXCEPT !.bufferSize = bufferSize]
          /\ indexer' = Indexer(args.skipSequenceIds, args.streamPrefix, bufferSize)
    /\ first' = [ran |-> TRUE, content |-> m_file.content, pc |-> pc,
                 error |-> error, calls |-> calls, index |-> m_index,
                 args |-> args]
    /\ m_file' = [m_file EXCEPT !.pos = 0]
    /\ m_index' = Index(args.chunkSize, args.primary)
    /\ corpus' = CorpusDescriptor(IsNumericSequenceKeys(corpus))
    /\ pc' = "Build"
    /\ frame' = NoFrame
    /\ error' = NoError
    /\ calls' = <<>>
    /\ builds' = 0

Next ==
    \/ Build
    \/ BuildFromLinesLoop
    \/ BuildFromLinesEnd
    \/ SkipLine
    \/ TryGetNumericSequenceId
    \/ TryGetSymbolicSequenceId

Spec == Init /\ [][Next]_vars

NextPair == Next \/ IndexerWithoutBOM

\* one Indexer over a file, then one over the file without its BOM
SpecPair == Init /\ [][NextPair]_vars

\* Build is one call on one thread: once called it performs its next step
\* until it returns or throws; nothing else is scheduled
SpecFair == Init /\ [][Next]_vars /\ WF_vars(Next)

NextBufferSizes == Next \/ IndexerWithBufferSize

\* one Indexer over a file, then one over the same file with another bufferSize
SpecBufferSizes == Init /\ [][NextBufferSizes]_vars

----------------------------------------------------------------------------
(* Properties *)

Chunks == m_index.m_chunks

Content == m_file.content

Returned == pc = "Returned"

\* the BOM bytes Build steps over: the file starts with the BOM and the
\* first block holds more than three bytes
SkippedBOMBytes ==
    IF HasBOM(Content) /\ Min(args.bufferSize, Len(Content)) > 3 THEN 3 ELSE 0

RECURSIVE SumOf(_, _)
\* the sum of field(s[i]) over a sequence s of records
SumOf(s, field) ==
    IF s = <<>> THEN 0 ELSE s[1][field] + SumOf(Tail(s), field)

\* C1: when Build has returned, the byteSize of all chunks adds up to the
\* file size minus the BOM bytes skipped (3 or 0).
C1_ChunkBytesCoverFile ==
    Returned => SumOf(Chunks, "m_byteSize") = Len(Content) - SkippedBOMBytes

C1_Witness ==
    /\ Returned
    /\ SkippedBOMBytes = 3
    /\ Len(Chunks) >= 2
    /\ indexer.m_hasSequenceIds
    /\ SumOf(Chunks, "m_byteSize") = Len(Content) - 3

CoversChunk(chunk) ==
    LET sq == chunk.m_sequences IN
    /\ sq # <<>> => sq[1].m_offsetInChunk = 0
    /\ \A k \in 2..Len(sq) :
          /\ sq[k - 1].m_offsetInChunk < sq[k].m_offsetInChunk
          /\ sq[k].m_offsetInChunk = sq[k - 1].m_offsetInChunk + sq[k - 1].m_byteSize
    /\ sq # <<>> =>
          sq[Len(sq)].m_offsetInChunk + sq[Len(sq)].m_byteSize = chunk.m_byteSize
    /\ chunk.m_byteSize = SumOf(sq, "m_byteSize")

\* C3: when Build has returned, in every chunk the sequences are in
\* increasing offsetInChunk order without overlap, the chunk's byteSize is the
\* sum of theirs, and they cover the chunk exactly: the first starts at 0,
\* each next one where the previous ends, the last ends at the chunk's byteSize.
C3_SequencesCoverChunks ==
    Returned => \A i \in 1..Len(Chunks) : CoversChunk(Chunks[i])

\* the same, for the files whose BOM is not skipped
C3_CoverWithoutBOM ==
    (Returned /\ SkippedBOMBytes = 0) => \A i \in 1..Len(Chunks) : CoversChunk(Chunks[i])

\* the same, for every chunk but the first
C3_CoverLaterChunks ==
    Returned => \A i \in 2..Len(Chunks) : CoversChunk(Chunks[i])

\* the sequence descriptors of the index in the order of the chunks, each
\* with its place in the file
RECURSIVE Flatten(_)
Flatten(chunks) ==
    IF chunks = <<>> THEN <<>>
    ELSE [k \in 1..Len(chunks[1].m_sequences) |->
             LET sd == chunks[1].m_sequences[k] IN
             [key |-> sd.m_key, numberOfSamples |-> sd.m_numberOfSamples,
              byteSize |-> sd.m_byteSize,
              start |-> chunks[1].m_offset + sd.m_offsetInChunk]]
         \o Flatten(Tail(chunks))

\* what the index must hold for a list of AddSequence calls
Recorded(cl) ==
    [k \in 1..Len(cl) |->
        [key |-> cl[k].key, numberOfSamples |-> cl[k].numberOfSamples,
         byteSize |-> cl[k].end - cl[k].start, start |-> cl[k].start]]

RECURSIVE SortedSeq(_)
\* the members of a finite set of integers in increasing order
SortedSeq(S) ==
    IF S = {} THEN <<>>
    ELSE LET m == CHOOSE x \in S : \A y \in S : x <= y
         IN <<m>> \o SortedSeq(S \ {m})

\* the offsets at which the lines of the bytes f start, from offset `from` on
LineStarts(f, from) ==
    SortedSeq({o \in from..(Len(f) - 1) : o = from \/ f[o] = ROW_DELIMITER})

\* the offset of the first byte at or after offset o that is no decimal digit
RECURSIVE DigitsEnd(_, _)
DigitsEnd(f, o) ==
    IF o >= Len(f) \/ f[o + 1] \notin 48..57 THEN o ELSE DigitsEnd(f, o + 1)

RECURSIVE Decimal(_, _, _)
\* the value of the decimal digits of f at offsets o .. e-1
Decimal(f, o, e) ==
    IF e <= o THEN 0 ELSE Decimal(f, o, e - 1) * 10 + (f[e] - 48)

\* the line at offset o begins with a decimal key followed by a non-digit byte
BeginsWithKey(f, o) == DigitsEnd(f, o) > o /\ DigitsEnd(f, o) < Len(f)

KeyAt(f, o) == Decimal(f, o, DigitsEnd(f, o))

ValidKeyedFile(f) ==
    /\ f # <<>>
    /\ \A k \in 1..Len(LineStarts(f, 0)) : BeginsWithKey(f, LineStarts(f, 0)[k])

\* one sequence for every maximal run of lines with the same key
ExpectedKeyed(f) ==
    LET starts == LineStarts(f, 0)
        n == Len(starts)
        key(k) == KeyAt(f, starts[k])
        heads == SortedSeq({k \in 1..n : k = 1 \/ key(k) # key(k - 1)})
        next(r) == IF r < Len(heads) THEN heads[r + 1] ELSE n + 1
    IN [r \in 1..Len(heads) |->
           [key |-> key(heads[r]),
            numberOfSamples |-> next(r) - heads[r],
            start |-> starts[heads[r]],
            end |-> IF r < Len(heads) THEN starts[heads[r + 1]] ELSE Len(f)]]

KeyedNumericRun ==
    /\ Returned
    /\ ~args.skipSequenceIds
    /\ IsNumericSequenceKeys(corpus)
    /\ ValidKeyedFile(Content)

\* C4: with numeric keys and a file whose every line begins with a decimal
\* key followed by a non-digit byte, Build records one sequence for every
\* maximal run of lines with the same key, in file order, with the run's key,
\* its number of lines, and the bytes from the run's first line to the next
\* run's first line (the file size for the last run).
C4_OneSequencePerKeyRun ==
    KeyedNumericRun =>
        /\ calls = ExpectedKeyed(Content)
        /\ Flatten(Chunks) = Recorded(ExpectedKeyed(Content))

C4_Witness ==
    /\ Returned
    /\ ~args.skipSequenceIds
    /\ IsNumericSequenceKeys(corpus)
    /\ Content = KeyedExample
    /\ args.bufferSize = 3
    /\ calls = <<[key |-> 0, numberOfSamples |-> 2, start |-> 0, end |-> 16],
                 [key |-> 1, numberOfSamples |-> 1, start |-> 16, end |-> 24]>>
    /\ Flatten(Chunks) = Recorded(calls)

\* the line-delimited path of line 123 is taken for this file and these
\* arguments
LineDelimitedInput ==
    /\ Len(Content) > SkippedBOMBytes
    /\ \/ args.skipSequenceIds
       \/ Content[SkippedBOMBytes + 1] = args.streamPrefix

\* one sequence for every line from offset `from` on, the last one ending at
\* the end of the file whether or not a delimiter ends it
ExpectedLines(f, from) ==
    LET starts == LineStarts(f, from) IN
    [k \in 1..Len(starts) |->
        [key |-> k - 1,
         numberOfSamples |-> 1,
         start |-> starts[k],
         end |-> IF k < Len(starts) THEN starts[k + 1] ELSE Len(f)]]

\* C5: on the line-delimited path Build records one sequence for every line
\* in file order: line i (from 0) has key i and one sample and runs from the
\* previous boundary through its '\n'; a last line without '\n' is recorded
\* up to the file size, and a file ending in '\n' gets no further sequence.
C5_OneSequencePerLine ==
    (Returned /\ LineDelimitedInput) =>
        /\ ~indexer.m_hasSequenceIds
        /\ calls = ExpectedLines(Content, SkippedBOMBytes)
        /\ Flatten(Chunks) = Recorded(calls)
        /\ \A k \in 1..Len(calls) :
              /\ calls[k].end > calls[k].start
              /\ Content[calls[k].end] = ROW_DELIMITER \/ k = Len(calls)

C5_Witness ==
    /\ Returned
    /\ args.skipSequenceIds
    /\ Content = LinesExample
    /\ args.bufferSize = 3
    /\ calls = <<[key |-> 0, numberOfSamples |-> 1, start |-> 0, end |-> 4],
                 [key |-> 1, numberOfSamples |-> 1, start |-> 4, end |-> 7]>>
    /\ Flatten(Chunks) = Recorded(calls)

\* a file whose last line has no '\n' (first byte the stream prefix)
C5_TrailingLineRecorded ==
    /\ Returned
    /\ ~args.skipSequenceIds
    /\ Content = <<124, 10, 48>>
    /\ calls = <<[key |-> 0, numberOfSamples |-> 1, start |-> 0, end |-> 2],
                 [key |-> 1, numberOfSamples |-> 1, start |-> 2, end |-> 3]>>

\* the calls cl with every offset moved up by d
Shifted(cl, d) ==
    [k \in 1..Len(cl) |->
        [cl[k] EXCEPT !.start = @ + d, !.end = @ + d]]

\* both Indexers are finished: the first over BOM + F, this one over F, a
\* file of valid numeric-keyed records, both reading keys
BothFinishedKeyed ==
    /\ first.ran
    /\ Finished
    /\ ~args.skipSequenceIds
    /\ IsNumericSequenceKeys(corpus)
    /\ ValidKeyedFile(Content)

SameShiftedByBOM ==
    /\ first.pc = "Returned"
    /\ Returned
    /\ first.calls = Shifted(calls, 3)
    /\ Flatten(first.index.m_chunks) = Recorded(Shifted(calls, 3))
    /\ Flatten(Chunks) = Recorded(calls)

\* C6: for every file F of valid numeric-keyed records and every buffer
\* size, Build on BOM + F records the sequences Build records on F (keys,
\* sample counts, byte sizes, order), every start and end offset 3 higher.
C6_BOMShiftsOffsetsByThree == BothFinishedKeyed => SameShiftedByBOM

\* the same, for the buffer sizes above 3
C6_ShiftWhenBlockHoldsBOM ==
    (BothFinishedKeyed /\ args.bufferSize > 3) => SameShiftedByBOM

C6_ShiftWitness ==
    /\ BothFinishedKeyed
    /\ args.bufferSize > 3
    /\ Len(calls) >= 2
    /\ SameShiftedByBOM

\* C7: a call of Build on an Indexer whose Build has returned changes
\* nothing: it returns without error, reads nothing from the file, and leaves
\* the chunks, the sequence descriptors and the key map as they were.
C7_RebuildIsNoOp ==
    [][(Returned /\ builds' = builds + 1) =>
          /\ pc' = "Returned"
          /\ error' = NoError
          /\ m_file' = m_file
          /\ indexer' = indexer
          /\ m_index' = m_index
          /\ calls' = calls]_vars

\* Build has been called a second time on an index of several sequences
C7_Witness ==
    /\ Returned
    /\ builds = 2
    /\ Len(Chunks) >= 2
    /\ Len(calls) >= 2
    /\ m_file.pos = Len(Content)

\* C8: Build on a file of no bytes ends with the "Input file is empty"
\* error: the first refill reads nothing and sets m_done, the error comes
\* before the mode is chosen (whatever the corpus and skipSequenceIds), and no
\* sequence is added.
C8_EmptyInputFails ==
    (Content = <<>> /\ pc # "Build") =>
        /\ pc = "Error"
        /\ error = EmptyInputError
        /\ indexer.m_done
        /\ m_file.pos = 0
        /\ indexer.m_fileOffsetEnd = 0
        /\ indexer.m_bufferStart = NULL
        /\ indexer.m_hasSequenceIds = ~args.skipSequenceIds
        /\ calls = <<>>
        /\ Flatten(Chunks) = <<>>
        /\ DOMAIN m_index.m_keyToSequenceInChunk = {}

\* the empty file with a corpus of symbolic keys and skipSequenceIds set:
\* mode detection would have raised the other error
C8_Witness ==
    /\ Content = <<>>
    /\ pc = "Error"
    /\ error = EmptyInputError
    /\ args.skipSequenceIds
    /\ ~IsNumericSequenceKeys(corpus)
    /\ builds = 1

RECURSIVE BytesOf(_, _, _)
\* the bytes of the calls cl[a] .. cl[b] together
BytesOf(cl, a, b) ==
    IF b < a THEN 0 ELSE BytesOf(cl, a, b - 1) + (cl[b].end - cl[b].start)

\* the step is one AddSequence call: it opens a chunk exactly when the last
\* chunk is not empty and would pass m_maxChunkSize, the new chunk's id is
\* its position, and the sequence goes to the last chunk
OpensChunkExactlyWhenFull ==
    Len(calls') = Len(calls) + 1 =>
        LET c == calls'[Len(calls')]
            last == Chunks[Len(Chunks)]
            n == Len(Chunks')
            full == /\ last.m_byteSize > 0
                    /\ last.m_byteSize + (c.end - c.start) > m_index.m_maxChunkSize
        IN /\ n = Len(Chunks) + (IF full THEN 1 ELSE 0)
           /\ SubSeq(Chunks', 1, n - 1) = SubSeq(Chunks, 1, n - 1)
           /\ Chunks'[n].m_id = n - 1
           /\ full => Chunks'[n].m_offset = c.start
           /\ Flatten(<<Chunks'[n]>>) =
                 (IF full THEN <<>> ELSE Flatten(<<last>>)) \o Recorded(<<c>>)

\* the bytes added first pass m_maxChunkSize with call k and, counted from
\* call k on, do not pass it again
CrossesOnceAt(k) ==
    /\ BytesOf(calls, 1, k - 1) <= m_index.m_maxChunkSize
    /\ BytesOf(calls, 1, k) > m_index.m_maxChunkSize
    /\ \A j \in (k + 1)..Len(calls) : BytesOf(calls, k, j) <= m_index.m_maxChunkSize

\* two chunks, calls 1 .. k-1 in chunk 0 and calls k .. in chunk 1
SplitAt(k) ==
    /\ Len(Chunks) = 2
    /\ Chunks[1].m_id = 0
    /\ Chunks[2].m_id = 1
    /\ Flatten(<<Chunks[1]>>) = Recorded(SubSeq(calls, 1, k - 1))
    /\ Flatten(<<Chunks[2]>>) = Recorded(SubSeq(calls, k, Len(calls)))

\* C9 as claimed: AddSequence opens a chunk exactly when the last chunk is
\* not empty and its byteSize plus the new sequence's passes m_maxChunkSize;
\* and when the bytes added first pass m_maxChunkSize at record k (k >= 1) and
\* not again afterwards, the index has exactly two chunks, records 1 .. k-1
\* in chunk 0 and record k first in chunk 1, whose id is 1.
C9_TwoChunksAtAnyCrossing ==
    [][/\ OpensChunkExactlyWhenFull
       /\ Returned' => \A k \in 1..Len(calls') : CrossesOnceAt(k)' => SplitAt(k)']_vars

\* C9 as amended: the same for k >= 2, that is when the first record alone
\* does not pass m_maxChunkSize.
C9_TwoChunksAtCrossing ==
    [][/\ OpensChunkExactlyWhenFull
       /\ Returned' => \A k \in 2..Len(calls') : CrossesOnceAt(k)' => SplitAt(k)']_vars

\* three records or more, the budget passed at the third or later
C9_Witness ==
    /\ Returned
    /\ m_index.m_maxChunkSize > 0
    /\ \E k \in 3..Len(calls) :
          /\ k < Len(calls)
          /\ CrossesOnceAt(k)
          /\ SplitAt(k)
          /\ Chunks[2].m_sequences[1].m_key = calls[k].key
          /\ Chunks[2].m_offset = calls[k].start

\* C10: when the line-delimited path is selected (skipSequenceIds, or the
\* first content byte is the stream prefix) and the corpus has symbolic keys,
\* Build fails with the format error before any sequence is added; with
\* numeric keys the line scan runs.
C10_LineModeNeedsNumericCorpus ==
    (LineDelimitedInput /\ pc # "Build") =>
        IF IsNumericSequenceKeys(corpus)
        THEN /\ pc \in {"BuildFromLines", "Returned"}
             /\ error = NoError
             /\ ~indexer.m_hasSequenceIds
             /\ Returned => calls = ExpectedLines(Content, SkippedBOMBytes) /\ calls # <<>>
        ELSE /\ pc = "Error"
             /\ error = NonNumericKeysError
             /\ calls = <<>>
             /\ Flatten(Chunks) = <<>>

\* the error, raised for a file whose first byte after the BOM is the prefix
C10_Witness ==
    /\ pc = "Error"
    /\ error = NonNumericKeysError
    /\ ~args.skipSequenceIds
    /\ SkippedBOMBytes = 3
    /\ ~IsNumericSequenceKeys(corpus)
    /\ calls = <<>>

\* the line scan under a numeric corpus
C10_ScanRuns ==
    /\ Returned
    /\ LineDelimitedInput
    /\ IsNumericSequenceKeys(corpus)
    /\ Len(calls) >= 2

KeyedPlaces == {"TryGetFirst", "SkipLine", "TryGetNext"}

\* C11 as claimed: on the line-delimited path a corpus of numeric keys makes
\* Build fail with the format error before any other mode is attempted, and
\* a corpus that takes non-numeric keys lets the line scan run.
C11_LineModeNeedsSymbolicCorpus ==
    (LineDelimitedInput /\ pc # "Build") =>
        /\ pc \notin KeyedPlaces
        /\ IF IsNumericSequenceKeys(corpus)
           THEN pc = "Error" /\ error = NonNumericKeysError
           ELSE pc \in {"BuildFromLines", "Returned"} /\ error = NoError

\* C11 as amended: on the line-delimited path a corpus of symbolic
\* (non-numeric) keys makes Build fail with the format error before any
\* other mode is attempted (no key is parsed, no line skipped, only the first
\* block read), and a corpus of numeric keys lets the line scan run.
C11_LineModeRejectsSymbolicCorpus ==
    (LineDelimitedInput /\ pc # "Build") =>
        /\ pc \notin KeyedPlaces
        /\ IsNumericSequenceKeys(corpus) <=> pc \in {"BuildFromLines", "Returned"}
        /\ ~IsNumericSequenceKeys(corpus) <=> (pc = "Error" /\ error = NonNumericKeysError)
        /\ ~IsNumericSequenceKeys(corpus) =>
              /\ m_file.pos = Min(args.bufferSize, Len(Content))
              /\ corpus.keys = <<>>
              /\ frame = NoFrame
              /\ indexer.m_hasSequenceIds = ~args.skipSequenceIds

\* skipSequenceIds forces the line path on a file that begins with a key,
\* and the symbolic corpus is refused
C11_Witness ==
    /\ pc = "Error"
    /\ error = NonNumericKeysError
    /\ args.skipSequenceIds
    /\ Content[1] \in 48..57
    /\ ~IsNumericSequenceKeys(corpus)
    /\ Len(Content) > args.bufferSize
    /\ m_file.pos = args.bufferSize

\* every byte Build parses (the file after a skipped BOM) is ASCII, so that
\* isdigit and isspace are defined
AsciiContent == \A i \in (SkippedBOMBytes + 1)..Len(Content) : Content[i] < 128

\* this step is the return of the numeric parser to Build
NumericParserReturns ==
    /\ pc \in {"TryGetFirst", "TryGetNext"}
    /\ pc' \notin {pc, "Undefined"}
    /\ IsNumericSequenceKeys(corpus)
    /\ AsciiContent

\* the parser was called by the loop of Build (line 152) and Build closes the
\* sequence of the previous key at the line the parser was called on
ClosesSequence ==
    /\ Len(calls') > Len(calls)
    /\ calls'[Len(calls) + 1].end = frame.offset

\* what Build does with a parser result `found`, `key` for the bytes at
\* frame.offset: the first key is required (line 139), a later key closes
\* the running sequence when it differs from the previous one (line 152)
BuildSees(found, key) ==
    /\ pc = "TryGetFirst" =>
          /\ (pc' = "Error" /\ error' = NoSequenceIdError) <=> ~found
          /\ found => pc' = "SkipLine" /\ frame'.previousId = key
    /\ pc = "TryGetNext" =>
          /\ ClosesSequence <=> (found /\ key # frame.previousId)
          /\ ClosesSequence => frame'.previousId = key

\* C12 as claimed: the numeric parser reads the decimal digits up to the
\* first non-digit and reports a key whenever it has read at least one digit;
\* it reports no key only when no digit was read.
C12_KeyWheneverDigitRead ==
    [][NumericParserReturns =>
          LET o == frame.offset
              e == DigitsEnd(Content, o)
          IN BuildSees(e > o, Decimal(Content, o, e))]_vars

\* C12 as amended: the numeric parser reads the decimal digits up to the
\* first non-digit and reports their base-10 value as the key when it has read
\* at least one digit and a non-digit byte follows; it reports no key when the
\* first byte is no digit, and also when the digits run to the end of the input.
C12_KeyWhenDigitsAreEnded ==
    [][NumericParserReturns =>
          LET o == frame.offset
              e == DigitsEnd(Content, o)
          IN BuildSees(e > o /\ e < Len(Content), Decimal(Content, o, e))]_vars

\* the digits of a later line run to the end of the file: no key is
\* reported and the bytes of the line go to the sequence of the previous key
C12_Witness ==
    /\ Returned
    /\ IsNumericSequenceKeys(corpus)
    /\ Content = <<48, 10, 49>>
    /\ ~args.skipSequenceIds
    /\ calls = <<[key |-> 0, numberOfSamples |-> 1, start |-> 0, end |-> 3]>>

\* a key of two digits is read in base 10
C12_TwoDigitKey ==
    /\ Returned
    /\ IsNumericSequenceKeys(corpus)
    /\ Content = MixedExample
    /\ ~args.skipSequenceIds
    /\ calls[Len(calls)].key = 10

\* the offset of the first byte at or after offset o that is white space
RECURSIVE TokenEnd(_, _)
TokenEnd(f, o) ==
    IF o >= Len(f) \/ f[o + 1] \in {9, 10, 11, 12, 13, 32} THEN o ELSE TokenEnd(f, o + 1)

\* the offset at which the key characters that begin at offset o end, for
\* the kind of keys of the corpus
KeyEnd(f, o) ==
    IF IsNumericSequenceKeys(corpus) THEN DigitsEnd(f, o) ELSE TokenEnd(f, o)

\* the keyed path of line 134 is taken for this file and these arguments,
\* and the first key has been parsed
FirstKeyParsed ==
    /\ Len(Content) > SkippedBOMBytes
    /\ ~LineDelimitedInput
    /\ AsciiContent
    /\ pc \notin {"Build", "TryGetFirst", "Undefined"}

NoSequenceIdFailure == pc = "Error" /\ error = NoSequenceIdError

NothingAdded ==
    /\ calls = <<>>
    /\ \A i \in 1..Len(Chunks) : Chunks[i].m_sequences = <<>> /\ Chunks[i].m_byteSize = 0
    /\ m_index.m_keyToSequenceInChunk = <<>>

\* C13 as claimed: in keyed mode Build fails with 'Expected a sequence id'
\* exactly when the content does not begin with a key character (a digit for
\* a numeric corpus, a non-space byte for a symbolic one), before any
\* sequence is added; a file that begins with a key character is not rejected.
C13_RejectedUnlessKeyCharacter ==
    FirstKeyParsed =>
        /\ NoSequenceIdFailure <=> KeyEnd(Content, SkippedBOMBytes) = SkippedBOMBytes
        /\ NoSequenceIdFailure => NothingAdded

\* C13 as amended: in keyed mode Build fails with 'Expected a sequence id'
\* exactly when the content does not begin with a key that is ended by a
\* byte of the file: the first byte is no key character, or the key
\* characters run to the end of the input; the error is raised before any
\* sequence is added, and a file that begins with key characters followed by
\* a non-key byte is not rejected.
C13_RejectedUnlessKeyIsEnded ==
    FirstKeyParsed =>
        LET o == SkippedBOMBytes
            e == KeyEnd(Content, o)
        IN /\ NoSequenceIdFailure <=> (e = o \/ e = Len(Content))
           /\ NoSequenceIdFailure => NothingAdded
           /\ (e > o /\ e < Len(Content)) => pc \in {"SkipLine", "TryGetNext", "Returned"}

\* a symbolic key that runs to the end of the file, behind a skipped BOM
C13_Witness ==
    /\ FirstKeyParsed
    /\ NoSequenceIdFailure
    /\ ~IsNumericSequenceKeys(corpus)
    /\ SkippedBOMBytes = 3
    /\ KeyEnd(Content, 3) = Len(Content)
    /\ Len(Content) = 6
    /\ NothingAdded

\* the first byte is no key character and the end of the input is not reached
C13_RejectedBeforeEnd ==
    /\ FirstKeyParsed
    /\ NoSequenceIdFailure
    /\ IsNumericSequenceKeys(corpus)
    /\ Content[1] = ROW_DELIMITER
    /\ ~indexer.m_done
    /\ m_file.pos < Len(Content)

KeyMap == m_index.m_keyToSequenceInChunk

\* the place of the sequence added last: the last chunk and its last index
LastLocation ==
    LET chunk == Chunks[Len(Chunks)] IN <<chunk.m_id, Len(chunk.m_sequences) - 1>>

\* C14 as claimed: on a non-primary index, after every AddSequence call the key map
\* maps the key just added to the chunk that received it and the sequence's
\* index in that chunk, also when the key was added before; on a primary
\* index the key map stays empty.
C14_KeyMapHoldsLastAdded ==
    /\ m_index.m_primary => KeyMap = <<>>
    /\ (~m_index.m_primary /\ calls # <<>>) =>
          /\ calls[Len(calls)].key \in DOMAIN KeyMap
          /\ KeyMap[calls[Len(calls)].key] = LastLocation

\* C14 as amended: on a non-primary index, after every AddSequence call the
\* key map holds exactly the keys added so far and maps each to the chunk and
\* the index in that chunk of the first sequence added with that key (a key
\* added again keeps its first place); on a primary index the key map stays
\* empty.
C14_KeyMapHoldsFirstAdded ==
    /\ m_index.m_primary => KeyMap = <<>>
    /\ ~m_index.m_primary =>
          /\ DOMAIN KeyMap = {calls[k].key : k \in 1..Len(calls)}
          /\ \A key \in DOMAIN KeyMap :
                LET k == CHOOSE k \in 1..Len(calls) :
                            /\ calls[k].key = key
                            /\ \A j \in 1..(k - 1) : calls[j].key # key
                    i == CHOOSE i \in 1..Len(Chunks) :
                            /\ SumOf(SubSeq(Chunks, 1, i - 1), "m_numberOfSequences") < k
                            /\ k <= SumOf(SubSeq(Chunks, 1, i), "m_numberOfSequences")
                IN KeyMap[key] =
                      <<Chunks[i].m_id,
                        k - 1 - SumOf(SubSeq(Chunks, 1, i - 1), "m_numberOfSequences")>>

\* key 0 comes back after key 1 and the key map still points at the first
C14_Witness ==
    /\ Returned
    /\ ~m_index.m_primary
    /\ Len(calls) >= 3
    /\ calls[1].key = calls[3].key
    /\ KeyMap[calls[3].key] = <<0, 0>>
    /\ LastLocation # <<0, 0>>

\* the number of AddSequence calls that went to the chunks before chunk i
CallsBefore(i) == SumOf(SubSeq(Chunks, 1, i - 1), "m_numberOfSequences")

\* chunk i starts in the file where its first sequence starts and ends
\* where its last sequence ends
StartsAtFirstSequence(i) ==
    Chunks[i].m_sequences # <<>> =>
        /\ Chunks[i].m_offset = calls[CallsBefore(i) + 1].start
        /\ Chunks[i].m_offset + Chunks[i].m_byteSize = calls[CallsBefore(i + 1)].end

\* C15: when Build has returned, every chunk that holds a sequence has as
\* m_offset the offset in the file of its first sequence, chunk 0 behind a
\* skipped BOM included, so that the bytes from m_offset to m_offset +
\* m_byteSize are exactly those of its sequences.
C15_ChunkStartsAtFirstSequence ==
    Returned => \A i \in 1..Len(Chunks) : StartsAtFirstSequence(i)

\* the same, for the files whose BOM is not skipped
C15_WithoutBOM ==
    (Returned /\ SkippedBOMBytes = 0) => \A i \in 1..Len(Chunks) : StartsAtFirstSequence(i)

\* the same, for every chunk but the first
C15_LaterChunks ==
    Returned => \A i \in 2..Len(Chunks) : StartsAtFirstSequence(i)

\* both Indexers are finished, the second with another bufferSize
BothFinishedBufferSizes ==
    /\ first.ran
    /\ Finished
    /\ first.content = Content
    /\ first.args.bufferSize # args.bufferSize

\* C16: over a file without BOM, two Indexers that differ only in bufferSize
\* make the same AddSequence calls (keys, sample counts, start and end
\* offsets, in order), end alike, and build the same index.
C16_SameCallsForEveryBufferSize ==
    BothFinishedBufferSizes =>
        /\ calls = first.calls
        /\ pc = first.pc
        /\ error = first.error
        /\ m_index = first.index

\* KeyedExample read byte by byte and in blocks of three: the blocks end
\* inside a key, inside a line and directly behind a delimiter
C16_Witness ==
    /\ BothFinishedBufferSizes
    /\ Returned
    /\ Content = KeyedExample
    /\ {args.bufferSize, first.args.bufferSize} = {1, 3}
    /\ ~args.skipSequenceIds
    /\ IsNumericSequenceKeys(corpus)
    /\ Len(calls) = 2
    /\ calls = first.calls

\* no step of Build has read through a null or out-of-block pointer
NeverUndefined == pc # "Undefined"

\* wherever the scanner is about to read, m_done is not set and the cursor
\* points into the current block (memchr may be given the empty range at its
\* end); a parser or SkipLine is never entered with m_done set
ReadsInsideBlock ==
    /\ pc \in {"TryGetFirst", "TryGetNext"} =>
          ~indexer.m_done /\ Readable(indexer, indexer.m_pos)
    /\ pc = "SkipLine" => ~indexer.m_done /\ Searchable(indexer)
    /\ (pc = "BuildFromLines" /\ ~indexer.m_done) => Searchable(indexer)

\* RefillBuffer() changes neither the Indexer nor the file
RefillIsNoOp == RefillBuffer(indexer, m_file) = [ix |-> indexer, file |-> m_file]

\* m_done, the block and the cursor are as they were
ScannerStays ==
    /\ indexer'.m_done = indexer.m_done
    /\ indexer'.m_fileOffsetStart = indexer.m_fileOffsetStart
    /\ indexer'.m_fileOffsetEnd = indexer.m_fileOffsetEnd
    /\ indexer'.m_bufferStart = indexer.m_bufferStart
    /\ indexer'.m_bufferEnd = indexer.m_bufferEnd
    /\ indexer'.m_pos = indexer.m_pos
    /\ m_file' = m_file

\* C17: during Build no byte is read through the cursor when m_done is set,
\* when the cursor is null or when it is outside the current block; and once
\* m_done is set a refill is a no-op, and m_done, the block offsets and the
\* cursor stay as they are in every later step.
C17_ReadsOnlyInsideBlock ==
    /\ [](NeverUndefined /\ ReadsInsideBlock /\ (indexer.m_done => RefillIsNoOp))
    /\ [][indexer.m_done => ScannerStays]_vars

\* the last line has no delimiter: SkipLine leaves the cursor null and the
\* refill sets m_done; the file was read byte by byte
C17_Witness ==
    /\ Returned
    /\ indexer.m_done
    /\ indexer.m_pos = NULL
    /\ args.bufferSize = 1
    /\ Content = MixedExample
    /\ m_file.pos = Len(Content)
    /\ RefillIsNoOp
    /\ Len(calls) = 4

\* the step is an iteration of the line loop (65-80), of SkipLine (169-182)
\* or of a key parser (189-204, 217-233), with Build's loop around them
LoopIteration ==
    /\ pc \in {"BuildFromLines", "SkipLine", "TryGetFirst", "TryGetNext"}
    /\ ~indexer.m_done
    /\ pc' # "Undefined"

\* the current absolute offset, m_fileOffsetStart + (m_pos - m_bufferStart),
\* is larger after the step
AdvancesOffset ==
    \A a \in GetFileOffset(indexer), b \in GetFileOffset(indexer') : b > a

\* the step has read the next block of the file
ReadsNextBlock ==
    /\ m_file'.pos > m_file.pos
    /\ indexer'.m_fileOffsetEnd > indexer.m_fileOffsetEnd

\* a key parser returns at the byte it was called on: the iteration ends the
\* parser's loop without moving the cursor
ReturnsAtOnce ==
    /\ pc \in {"TryGetFirst", "TryGetNext"}
    /\ pc' # pc
    /\ indexer' = indexer

\* C18 as claimed: Build terminates, by return or by error, for every file
\* and bufferSize, and every iteration of its loops either advances the
\* current absolute offset or sets m_done.
C18_EveryIterationAdvances ==
    /\ <>Finished
    /\ [][LoopIteration => (AdvancesOffset \/ indexer'.m_done \/ ReturnsAtOnce)]_vars

\* C18 as amended: Build terminates, by return or by error, for every file
\* and bufferSize; every iteration of its loops advances the current
\* absolute offset, reads the next block of the file, or sets m_done (a
\* parser's last iteration may instead return at the byte it was called on).
\* The line loop, when a '\n' is the last byte of a block, has an iteration
\* that searches the empty rest of the block and only reads the next block:
\* the offset is the same before and after.
C18_EveryIterationProgresses ==
    /\ <>Finished
    /\ [][LoopIteration =>
             (AdvancesOffset \/ ReadsNextBlock \/ indexer'.m_done \/ ReturnsAtOnce)]_vars

\* a Build that went through many iterations, with a delimiter at the end of
\* a block, has returned
C18_Witness ==
    /\ Returned
    /\ Content = LinesExample
    /\ args.bufferSize = 4
    /\ args.skipSequenceIds
    /\ m_file.pos = Len(Content)
    /\ Len(calls) = 2

\* C19: the AddSequence calls of a Build that does not fail tile the file
\* in order: the first starts at the number of BOM bytes skipped (0 or 3),
\* each next one where the previous ends, every call ends after it starts,
\* and when Build returns the last one ends at the file size.
C19_CallsTileFile ==
    pc # "Error" =>
        /\ calls # <<>> => calls[1].start = SkippedBOMBytes
        /\ \A k \in 2..Len(calls) : calls[k].start = calls[k - 1].end
        /\ \A k \in 1..Len(calls) : calls[k].start < calls[k].end
        /\ Returned => calls # <<>> /\ calls[Len(calls)].end = Len(Content)

\* keyed mode behind a skipped BOM, the last line without delimiter
C19_Witness ==
    /\ Returned
    /\ indexer.m_hasSequenceIds
    /\ Content = BOM \o MixedExample
    /\ SkippedBOMBytes = 3
    /\ Len(calls) = 4
    /\ calls[1].start = 3
    /\ calls[4].end = Len(Content)

\* C20: in keyed mode every sequence descriptor added to the index, the
\* one closed at the end of the file included, has at least one sample, and
\* two descriptors added one after the other have different keys.
C20_KeyedDescriptors ==
    indexer.m_hasSequenceIds =>
        LET sds == Flatten(Chunks) IN
        /\ Len(sds) = Len(calls)
        /\ \A k \in 1..Len(calls) :
              /\ calls[k].numberOfSamples >= 1
              /\ sds[k].numberOfSamples = calls[k].numberOfSamples
              /\ sds[k].key = calls[k].key
        /\ \A k \in 2..Len(calls) : calls[k].key # calls[k - 1].key

\* symbolic keys, of which the first comes back after another
C20_Witness ==
    /\ Returned
    /\ indexer.m_hasSequenceIds
    /\ ~IsNumericSequenceKeys(corpus)
    /\ Content = MixedExample
    /\ Len(calls) = 3
    /\ calls[1].key = calls[3].key
    /\ calls[3].end = Len(Content)
    /\ \A k \in 1..3 : calls[k].numberOfSamples = 1

====
